---- MODULE Spec2Model ----
(***************************************************************************)
(* A model of jpeg2pdf.py: the page-number format-string parser, the       *)
(* image recompression function, and the main program (option validation, *)
(* the image processing loop inside the temporary directory, the assembly  *)
(* of the document, the page-label patch and the final save).              *)
(*                                                                         *)
(* Python strings are sequences of one-character strings.  A Python value  *)
(* that may be None is a record [none, val]: val carries a value of the    *)
(* right type that is meaningless when none is TRUE.                       *)
(***************************************************************************)
EXTENDS Integers, Sequences, FiniteSets, TLC

VARIABLES
    \* ---- a call of parse_page_number_formatting_string on its own
    page_format,            \* the argument of the call
    parse_pc,               \* "call" | "returned" | "raised"
    parse_out,              \* what the call produced
    \* ---- a call of process_image on its own
    pi_quality,             \* the quality argument of the call
    pi_pc,                  \* "call" | "returned" | "raised"
    pi_encoded,             \* quality handed to image.save ([none, val])
    \* ---- the main program
    args,                   \* the parsed command line
    recompress_all_jpegs,   \* module-level switch (line 14)
    jpeg_compression_quality, \* module-level quality (line 13, 254)
    pc,                     \* position in the main program
    pdf_output_filepath,
    magnification,
    page_mode,
    page_numbering_prefix,
    page_numbering_style,
    first_page,
    temp_dir,               \* "none" | "exists" | "removed"
    temp_files,             \* quality of page0001.jpg, page0002.jpg, ...
    input_index,            \* inputs of args.input_files already iterated
    input_file_counter,
    image,                  \* the image opened last by the loop, with the
                            \* sizes of its file and of its recompressed file
    image_files,            \* list of image files to be combined
    open_log,               \* outcome of each Image.open of the loop, in order
    pdf_data,               \* files img2pdf.convert combined ([none, val])
    page_label,             \* the dictionary at /PageLabels /Nums [0 ...]
    open_action,            \* the /OpenAction array ([none, val])
    written_file,           \* the file pdf.save wrote ([none, val])
    stdout,                 \* messages printed to standard output
    stderr                  \* messages printed to standard error

parseVars == <<page_format, parse_pc, parse_out>>
piVars == <<pi_quality, pi_pc, pi_encoded>>
optionVars == <<pdf_output_filepath, magnification, page_mode,
                page_numbering_prefix, page_numbering_style, first_page>>
loopVars == <<temp_files, input_index, input_file_counter, image,
              image_files, open_log>>
docVars == <<pdf_data, page_label, open_action, written_file>>
mainVars == <<args, recompress_all_jpegs, pc, optionVars, temp_dir, loopVars,
              docVars, stdout, stderr>>
vars == <<parseVars, piVars, jpeg_compression_quality, mainVars>>

-----------------------------------------------------------------------------
(* Bounds of the model *)

MaxFormatLen == 4       \* longest format string handed to the parser alone
MaxInputs == 2          \* most input files on the command line
MaxSize == 2            \* largest file size, in bytes

-----------------------------------------------------------------------------
(* Python values *)

NoneStr == [none |-> TRUE, val |-> <<>>]
SomeStr(s) == [none |-> FALSE, val |-> s]
NoneInt == [none |-> TRUE, val |-> 0]
SomeInt(n) == [none |-> FALSE, val |-> n]

\* Truth value of an optional string: None and '' are false.
Truthy(o) == ~o.none /\ o.val # <<>>

RECURSIVE Strings(_, _)
Strings(alphabet, n) ==
    IF n = 0 THEN {<<>>}
    ELSE LET shorter == Strings(alphabet, n - 1)
         IN  shorter \cup {Append(s, c) : s \in shorter, c \in alphabet}

-----------------------------------------------------------------------------
(* parse_page_number_formatting_string *)

StyleChars == {"D", "R", "r", "A", "a"}

MsgOneStyle == "only one page numbering style may be specified in the formatting string"
MsgInvalidStyle == "invalid formatting style"
MsgNoSuffix == "no suffixes are permitted in the page formatting string"

\* The locals of the function before the loop (lines 133-139); raised holds
\* the message of a ValueError raised inside the loop.
ScanStart ==
    [style |-> NoneStr, page_style_pos |-> NoneInt,
     percent_char_read |-> FALSE, raised |-> NoneStr]

\* One iteration of the for loop (lines 143-172) on character i (0-based).
ScanChar(fmt, i, st) ==
    LET char == fmt[i + 1] IN
    IF char = "%" /\ ~st.percent_char_read
    THEN [st EXCEPT !.percent_char_read = TRUE]
    ELSE IF st.percent_char_read
    THEN LET st1 ==
                 IF char = "%" THEN st
                 ELSE IF ~st.style.none
                 THEN [st EXCEPT !.raised = SomeStr(MsgOneStyle)]
                 ELSE IF char \in StyleChars
                 THEN [st EXCEPT !.style = SomeStr(<<"/", char>>)]
                 ELSE [st EXCEPT !.raised = SomeStr(MsgInvalidStyle)]
         IN  IF ~st1.raised.none THEN st1
             ELSE [st1 EXCEPT
                     !.page_style_pos =
                         IF ~st1.style.none THEN SomeInt(i - 1) ELSE @,
                     !.percent_char_read = FALSE]
    ELSE st

\* The for loop (line 142) from character i on.
RECURSIVE ScanFrom(_, _, _)
ScanFrom(fmt, i, st) ==
    IF i >= Len(fmt) \/ ~st.raised.none THEN st
    ELSE ScanFrom(fmt, i + 1, ScanChar(fmt, i, st))

\* page_format[:page_style_pos] (line 175): None slices to the end.
PrefixSlice(fmt, pos) ==
    IF pos.none THEN fmt ELSE SubSeq(fmt, 1, pos.val)

\* The whole function: [raised, prefix, style].
parse_page_number_formatting_string(fmt) ==
    LET st == ScanFrom(fmt, 0, ScanStart)
        prefix == PrefixSlice(fmt, st.page_style_pos)
    IN  IF ~st.raised.none
        THEN [raised |-> st.raised, prefix |-> NoneStr, style |-> NoneStr]
        ELSE IF ~st.page_style_pos.none
                /\ st.page_style_pos.val # Len(fmt) - 2
        THEN [raised |-> SomeStr(MsgNoSuffix), prefix |-> NoneStr,
              style |-> NoneStr]
        ELSE [raised |-> NoneStr, prefix |-> SomeStr(prefix),
              style |-> st.style]

NoParse == [raised |-> NoneStr, prefix |-> NoneStr, style |-> NoneStr]

-----------------------------------------------------------------------------
(* A call of parse_page_number_formatting_string on its own *)

FormatChars == {"%", "D", "r", "x"}

ParseReturns ==
    /\ parse_pc = "call"
    /\ parse_page_number_formatting_string(page_format).raised.none
    /\ parse_pc' = "returned"
    /\ parse_out' = parse_page_number_formatting_string(page_format)
    /\ UNCHANGED <<page_format, piVars, jpeg_compression_quality, mainVars>>

ParseRaises ==
    /\ parse_pc = "call"
    /\ ~parse_page_number_formatting_string(page_format).raised.none
    /\ parse_pc' = "raised"
    /\ parse_out' = parse_page_number_formatting_string(page_format)
    /\ UNCHANGED <<page_format, piVars, jpeg_compression_quality, mainVars>>

-----------------------------------------------------------------------------
(* process_image *)

DefaultQuality == 75    \* jpeg_compression_quality (line 13)
QualityMin == 1         \* range(1,101) (lines 197, 255)
QualityMax == 100

PyInt(n) == [type |-> "int", val |-> n]
PyStr(n) == [type |-> "str", val |-> n]

\* The check of lines 197-199: FALSE when the ValueError is raised.
QualityIsValid(quality) ==
    quality.type = "int" /\ quality.val \in QualityMin..QualityMax

\* The quality handed to image.save (line 225) by a call whose argument is
\* quality: the function reads the module-level name.
SaveQuality(quality) == jpeg_compression_quality

ProcessImageReturns ==
    /\ pi_pc = "call"
    /\ QualityIsValid(pi_quality)
    /\ pi_pc' = "returned"
    /\ pi_encoded' = SomeInt(SaveQuality(pi_quality))
    /\ UNCHANGED <<pi_quality, parseVars, jpeg_compression_quality, mainVars>>

ProcessImageRaises ==
    /\ pi_pc = "call"
    /\ ~QualityIsValid(pi_quality)
    /\ pi_pc' = "raised"
    /\ UNCHANGED <<pi_quality, pi_encoded, parseVars,
                   jpeg_compression_quality, mainVars>>

-----------------------------------------------------------------------------
(* The main program: the command line *)

DEBUG == TRUE           \* line 11

Digits == {"0", "1", "2", "3", "4", "5", "6", "7", "8", "9"}

DigitValue(c) ==
    CASE c = "0" -> 0 [] c = "1" -> 1 [] c = "2" -> 2 [] c = "3" -> 3
      [] c = "4" -> 4 [] c = "5" -> 5 [] c = "6" -> 6 [] c = "7" -> 7
      [] c = "8" -> 8 [] c = "9" -> 9

RECURSIVE DecimalValue(_)
DecimalValue(s) ==
    IF s = <<>> THEN 0
    ELSE 10 * DecimalValue(SubSeq(s, 1, Len(s) - 1)) + DigitValue(s[Len(s)])

\* int(s) for a string of digits, signs and letters: [raised, val].  A
\* string is an integer literal when it is an optional sign followed by one
\* or more digits; anything else raises ValueError.
int(s) ==
    LET signed == s # <<>> /\ s[1] \in {"+", "-"}
        body == IF signed THEN Tail(s) ELSE s
    IN  IF body = <<>> \/ \E k \in 1..Len(body) : body[k] \notin Digits
        THEN [raised |-> TRUE, val |-> 0]
        ELSE [raised |-> FALSE,
              val |-> IF signed /\ s[1] = "-"
                      THEN 0 - DecimalValue(body) ELSE DecimalValue(body)]

\* The values of each option the model runs the program with.  An option
\* that is absent is None (the append_const lists: empty).
QualityArgs ==
    {NoneStr, SomeStr(<<"0">>), SomeStr(<<"1", "0">>),
     SomeStr(<<"1", "0", "1">>), SomeStr(<<"x">>)}
MagnificationArgs == {<<>>, <<"FitH">>, <<"FitV">>, <<"FitH", "Fit">>}
PageModeArgs == {<<>>, <<"UseThumbs">>, <<"UseThumbs", "UseThumbs">>}
PageNumberingArgs ==
    {NoneStr, SomeStr(<<"A", "-", "%", "D">>), SomeStr(<<"%", "z">>),
     SomeStr(<<"%", "D", "-", "x">>), SomeStr(<<"%", "D", "%", "r">>),
     SomeStr(<<"%", "D", "%", "%">>), SomeStr(<<"1", "%", "%">>)}
FirstPageArgs ==
    {NoneStr, SomeStr(<<"1">>), SomeStr(<<"5">>), SomeStr(<<"0">>),
     SomeStr(<<"x">>)}
OutputFileArgs ==
    {<<"o">>, <<"o", ".", "p", "d", "f">>, <<".", "/", "o">>,
     <<"d", ".", "v", "/", "o">>}

\* The outcomes of Image.open on an input file (lines 341, 373, 377).
ImageFormats == {"JPEG", "PNG"}

NoImage ==
    [path |-> 0, format |-> "none", original_size |-> 0, output_size |-> 0]

NoneName == [none |-> TRUE, val |-> ""]
SomeName(n) == [none |-> FALSE, val |-> n]

NoPageLabel == [P |-> NoneStr, S |-> NoneStr, St |-> NoneInt]
NoOpenAction == [none |-> TRUE, name |-> "", extra |-> ""]
NoFiles == [none |-> TRUE, val |-> <<>>]

\* Paths of the files that may be combined: an input file, by its position
\* on the command line, or pageNNNN.jpg of the temporary directory.
InputPath(n) == [dir |-> "input", n |-> n]
TempPath(n) == [dir |-> "temp", n |-> n]

\* s.find(c) (line 247): the lowest index of c in s, or -1.
find(s, c) ==
    IF \E k \in 1..Len(s) : s[k] = c
    THEN (CHOOSE k \in 1..Len(s) :
              s[k] = c /\ \A j \in 1..(k - 1) : s[j] # c) - 1
    ELSE 0 - 1

DotPdf == <<".", "p", "d", "f">>

\* quit() outside the with block: the process exits.
Quit == pc' = "exit"

-----------------------------------------------------------------------------
(* The main program: option validation (lines 244-317) *)

\* Lines 246-248.
SetOutputFilepath ==
    /\ pc = "output_file"
    /\ pdf_output_filepath' =
           IF find(args.output_file, ".") = 0 - 1
           THEN args.output_file \o DotPdf
           ELSE args.output_file
    /\ pc' = "quality"
    /\ UNCHANGED <<parseVars, piVars, jpeg_compression_quality, args,
                   recompress_all_jpegs, magnification, page_mode,
                   page_numbering_prefix, page_numbering_style, first_page,
                   temp_dir, loopVars, docVars, stdout, stderr>>

\* Lines 252-260.
CheckQuality ==
    /\ pc = "quality"
    /\ IF Truthy(args.quality)
       THEN LET parsed == int(args.quality.val) IN
            /\ jpeg_compression_quality' =
                   IF parsed.raised THEN jpeg_compression_quality
                   ELSE parsed.val
            /\ IF parsed.raised \/ parsed.val \notin QualityMin..QualityMax
               THEN /\ stderr' = stderr \cup {"-q/--quality argument must be an integer value between 1 and 100"}
                    /\ Quit
               ELSE /\ pc' = "magnification"
                    /\ UNCHANGED stderr
       ELSE /\ pc' = "magnification"
            /\ UNCHANGED <<jpeg_compression_quality, stderr>>
    /\ UNCHANGED <<parseVars, piVars, args, recompress_all_jpegs, optionVars,
                   temp_dir, loopVars, docVars, stdout>>

\* Lines 265-274.
CheckMagnification ==
    /\ pc = "magnification"
    /\ IF args.magnification # <<>>
       THEN IF Len(args.magnification) > 1
            THEN /\ stderr' = stderr \cup {"only one magnification setting can be specified"}
                 /\ Quit
                 /\ UNCHANGED magnification
            ELSE /\ magnification' = SomeName(args.magnification[1])
                 /\ pc' = "page_mode"
                 /\ UNCHANGED stderr
       ELSE /\ pc' = "page_mode"
            /\ UNCHANGED <<magnification, stderr>>
    /\ UNCHANGED <<parseVars, piVars, jpeg_compression_quality, args,
                   recompress_all_jpegs, pdf_output_filepath, page_mode,
                   page_numbering_prefix, page_numbering_style, first_page,
                   temp_dir, loopVars, docVars, stdout>>

\* Lines 277-287.
CheckPageMode ==
    /\ pc = "page_mode"
    /\ IF args.page_mode # <<>>
       THEN IF Len(args.page_mode) > 1
            THEN /\ stderr' = stderr \cup {"only one page mode setting can be specified"}
                 /\ Quit
                 /\ UNCHANGED page_mode
            ELSE /\ page_mode' =
                        IF args.page_mode[1] = "UseThumbs" THEN "thumbs"
                        ELSE page_mode
                 /\ pc' = "page_numbering"
                 /\ UNCHANGED stderr
       ELSE /\ pc' = "page_numbering"
            /\ UNCHANGED <<page_mode, stderr>>
    /\ UNCHANGED <<parseVars, piVars, jpeg_compression_quality, args,
                   recompress_all_jpegs, pdf_output_filepath, magnification,
                   page_numbering_prefix, page_numbering_style, first_page,
                   temp_dir, loopVars, docVars, stdout>>

\* Lines 296-304.  args.page_numbering is a one-element list (nargs=1), true
\* whatever the string in it; the message of the ValueError is printed
\* without file=sys.stderr.
ParsePageNumbering ==
    /\ pc = "page_numbering"
    /\ IF ~args.page_numbering.none
       THEN LET parsed ==
                    parse_page_number_formatting_string(args.page_numbering.val)
            IN  IF ~parsed.raised.none
                THEN /\ stdout' = stdout \cup {parsed.raised.val}
                     /\ Quit
                     /\ UNCHANGED <<page_numbering_prefix,
                                    page_numbering_style>>
                ELSE /\ page_numbering_prefix' = parsed.prefix
                     /\ page_numbering_style' = parsed.style
                     /\ pc' = "first_page"
                     /\ UNCHANGED stdout
       ELSE /\ pc' = "first_page"
            /\ UNCHANGED <<page_numbering_prefix, page_numbering_style,
                           stdout>>
    /\ UNCHANGED <<parseVars, piVars, jpeg_compression_quality, args,
                   recompress_all_jpegs, pdf_output_filepath, magnification,
                   page_mode, first_page, temp_dir, loopVars, docVars,
                   stderr>>

\* Lines 308-317.
CheckFirstPage ==
    /\ pc = "first_page"
    /\ IF Truthy(args.first_page_number)
       THEN LET parsed == int(args.first_page_number.val) IN
            /\ first_page' =
                   IF parsed.raised THEN first_page ELSE parsed.val
            /\ IF parsed.raised \/ parsed.val < 1
               THEN /\ stderr' = stderr \cup {"--first-page-number argument must be a positive integer value"}
                    /\ Quit
               ELSE /\ pc' = "temp_dir"
                    /\ UNCHANGED stderr
       ELSE /\ pc' = "temp_dir"
            /\ UNCHANGED <<first_page, stderr>>
    /\ UNCHANGED <<parseVars, piVars, jpeg_compression_quality, args,
                   recompress_all_jpegs, pdf_output_filepath, magnification,
                   page_mode, page_numbering_prefix, page_numbering_style,
                   temp_dir, loopVars, docVars, stdout>>

-----------------------------------------------------------------------------
(* The main program: the image files (lines 330-413) *)

\* The directory made by tempfile.mkdtemp, which nothing removes.
TemporaryDirectoryKept == "exists"

\* Leaving the with block of line 332, by its end or by an exception
\* (SystemExit included): TemporaryDirectory removes the directory.
TemporaryDirectoryExit == "removed"

\* Lines 332-337.
CreateTemporaryDirectory ==
    /\ pc = "temp_dir"
    /\ temp_dir' = "exists"
    /\ stdout' = IF DEBUG THEN stdout \cup {"Creating temporary directory"}
                 ELSE stdout
    /\ input_file_counter' = 1
    /\ pc' = "loop"
    /\ UNCHANGED <<parseVars, piVars, jpeg_compression_quality, args,
                   recompress_all_jpegs, optionVars, temp_files, input_index,
                   image, image_files, open_log, docVars, stderr>>

\* The condition with < for <=.
UseOriginalIfSmaller(opened) ==
    /\ opened.format = "JPEG"
    /\ recompress_all_jpegs = FALSE
    /\ opened.original_size < opened.output_size

\* The condition of lines 361-364 on the image opened from `opened`.
UseOriginal(opened) ==
    /\ opened.format = "JPEG"
    /\ recompress_all_jpegs = FALSE
    /\ opened.original_size <= opened.output_size

\* One iteration of the loop of line 338 in which Image.open succeeds
\* (lines 341-370).  The format of the image, the size of its file and the
\* size of the file process_image writes are the environment's; the codec
\* is taken to encode every image it opened.
InputFileProcessed ==
    /\ pc = "loop"
    /\ input_index < Len(args.input_files)
    /\ \E format \in ImageFormats, size \in 1..MaxSize, new_size \in 1..MaxSize :
         LET input_file == args.input_files[input_index + 1]
             opened == [path |-> input_file, format |-> format,
                        original_size |-> size, output_size |-> new_size]
         IN  /\ open_log' = Append(open_log, "ok")
             /\ stdout' = stdout \cup {"Processing"}
             /\ IF QualityIsValid(PyInt(jpeg_compression_quality))
                THEN /\ image' = opened
                     /\ temp_files' =
                            Append(temp_files,
                                   SaveQuality(PyInt(jpeg_compression_quality)))
                     /\ image_files' =
                            Append(image_files,
                                   IF UseOriginal(opened)
                                   THEN InputPath(input_file)
                                   ELSE TempPath(input_file_counter))
                     /\ input_file_counter' = input_file_counter + 1
                     /\ input_index' = input_index + 1
                     /\ UNCHANGED <<pc, temp_dir, stderr>>
                ELSE \* the ValueError of process_image is not caught
                     /\ stderr' = stderr \cup {"Traceback"}
                     /\ temp_dir' = TemporaryDirectoryExit
                     /\ Quit
                     /\ UNCHANGED <<image, temp_files, image_files,
                                    input_file_counter, input_index>>
    /\ UNCHANGED <<parseVars, piVars, jpeg_compression_quality, args,
                   recompress_all_jpegs, optionVars, docVars>>

\* The handler of FileNotFoundError around the loop instead of inside it:
\* the first missing file ends the loop.
InputFileNotFoundEndsLoop ==
    /\ pc = "loop"
    /\ input_index < Len(args.input_files)
    /\ open_log' = Append(open_log, "FileNotFoundError")
    /\ stderr' = stderr \cup {"Unable to open"}
    /\ input_index' = Len(args.input_files)
    /\ UNCHANGED <<parseVars, piVars, jpeg_compression_quality, args,
                   recompress_all_jpegs, pc, optionVars, temp_dir, temp_files,
                   input_file_counter, image, image_files, docVars, stdout>>

\* An iteration in which Image.open raises FileNotFoundError (lines 373-374).
InputFileNotFound ==
    /\ pc = "loop"
    /\ input_index < Len(args.input_files)
    /\ open_log' = Append(open_log, "FileNotFoundError")
    /\ stderr' = stderr \cup {"Unable to open"}
    /\ input_index' = input_index + 1
    /\ UNCHANGED <<parseVars, piVars, jpeg_compression_quality, args,
                   recompress_all_jpegs, pc, optionVars, temp_dir, temp_files,
                   input_file_counter, image, image_files, docVars, stdout>>

\* An iteration in which Image.open raises PIL.UnidentifiedImageError
\* (lines 377-380).
InputFileUnidentified ==
    /\ pc = "loop"
    /\ input_index < Len(args.input_files)
    /\ open_log' = Append(open_log, "UnidentifiedImageError")
    /\ stderr' = stderr \cup {"is either not an image file or the file is corrupted"}
    /\ input_index' = input_index + 1
    /\ UNCHANGED <<parseVars, piVars, jpeg_compression_quality, args,
                   recompress_all_jpegs, pc, optionVars, temp_dir, temp_files,
                   input_file_counter, image, image_files, docVars, stdout>>

\* img2pdf.convert can read a file of the list when the file exists.
Readable(path) == path.dir = "input" \/ temp_dir = "exists"

\* Lines 382-408: the loop is over and image_files is not empty.
CombineImages ==
    /\ pc = "loop"
    /\ input_index = Len(args.input_files)
    /\ image_files # <<>>
    /\ stdout' = IF DEBUG
                 THEN stdout \cup {"The following files will be combined into a PDF file"}
                 ELSE stdout
    /\ IF \A k \in 1..Len(image_files) : Readable(image_files[k])
       THEN /\ pdf_data' = [none |-> FALSE, val |-> image_files]
            /\ pc' = "with_end"
            /\ UNCHANGED <<temp_dir, stderr>>
       ELSE \* the exception of img2pdf.convert is not caught
            /\ stderr' = stderr \cup {"Traceback"}
            /\ temp_dir' = TemporaryDirectoryExit
            /\ Quit
            /\ UNCHANGED pdf_data
    /\ UNCHANGED <<parseVars, piVars, jpeg_compression_quality, args,
                   recompress_all_jpegs, optionVars, loopVars, page_label,
                   open_action, written_file>>

\* Lines 410-413: the loop is over and image_files is empty.
NoImageFiles ==
    /\ pc = "loop"
    /\ input_index = Len(args.input_files)
    /\ image_files = <<>>
    /\ stdout' = stdout \cup {"No image files were processed successfully, so no PDF file will be generated."}
    /\ temp_dir' = TemporaryDirectoryExit
    /\ Quit
    /\ UNCHANGED <<parseVars, piVars, jpeg_compression_quality, args,
                   recompress_all_jpegs, optionVars, loopVars, docVars,
                   stderr>>

\* The end of the with block of line 332, after img2pdf.convert returned.
LeaveTemporaryDirectory ==
    /\ pc = "with_end"
    /\ temp_dir' = TemporaryDirectoryExit
    /\ pc' = "post_process"
    /\ UNCHANGED <<parseVars, piVars, jpeg_compression_quality, args,
                   recompress_all_jpegs, optionVars, loopVars, docVars,
                   stdout, stderr>>

-----------------------------------------------------------------------------
(* The main program: the PDF file (lines 420-472) *)

\* The dictionary with /St set for every first page (>= 1 for > 1).
PageLabelAlwaysStart(prefix, style, first) ==
    [P |-> IF Truthy(prefix) THEN prefix ELSE NoneStr,
     S |-> IF Truthy(style) THEN style ELSE NoneStr,
     St |-> IF first >= 1 THEN SomeInt(first) ELSE NoneInt]

\* The dictionary built by lines 432-438; a key that is not set is None.
PageLabel(prefix, style, first) ==
    [P |-> IF Truthy(prefix) THEN prefix ELSE NoneStr,
     S |-> IF Truthy(style) THEN style ELSE NoneStr,
     St |-> IF first > 1 THEN SomeInt(first) ELSE NoneInt]

\* The array built by lines 447-462: the page to open (0), the name of the
\* magnification and what FitH and FitV add to them.
OpenAction(magn) ==
    IF ~magn.none /\ magn.val # ""
    THEN [none |-> FALSE, name |-> magn.val,
          extra |-> IF magn.val = "FitH" THEN "page_to_open_height"
                    ELSE IF magn.val = "FitV" THEN "0" ELSE ""]
    ELSE NoOpenAction

\* Lines 421-465.
PostProcess ==
    /\ pc = "post_process"
    /\ page_label' = PageLabel(page_numbering_prefix, page_numbering_style,
                               first_page)
    /\ open_action' = OpenAction(magnification)
    /\ pc' = "save"
    /\ UNCHANGED <<parseVars, piVars, jpeg_compression_quality, args,
                   recompress_all_jpegs, optionVars, temp_dir, loopVars,
                   pdf_data, written_file, stdout, stderr>>

\* Lines 468-470: pdf.save writes the file.
WritePdf ==
    /\ pc = "save"
    /\ stdout' = stdout \cup {"Writing"}
    /\ written_file' = SomeStr(pdf_output_filepath)
    /\ pc' = "done"
    /\ UNCHANGED <<parseVars, piVars, jpeg_compression_quality, args,
                   recompress_all_jpegs, optionVars, temp_dir, loopVars,
                   pdf_data, page_label, open_action, stderr>>

\* Lines 468-472: pdf.save raises PermissionError.
WritePdfDenied ==
    /\ pc = "save"
    /\ stdout' = stdout \cup {"Writing"}
    /\ stderr' = stderr \cup {"Unable to write"}
    /\ pc' = "done"
    /\ UNCHANGED <<parseVars, piVars, jpeg_compression_quality, args,
                   recompress_all_jpegs, optionVars, temp_dir, loopVars,
                   docVars>>

-----------------------------------------------------------------------------
(* Specifications *)

InputFiles(n) == [k \in 1..n |-> k]

DefaultArgs ==
    [quality |-> NoneStr, magnification |-> <<>>, page_mode |-> <<>>,
     page_numbering |-> NoneStr, first_page_number |-> NoneStr,
     input_files |-> InputFiles(1), output_file |-> <<"o">>]

\* The main program's variables before line 240.
MainStart ==
    /\ pdf_output_filepath = <<>>
    /\ magnification = NoneName
    /\ page_mode = "none"
    /\ page_numbering_prefix = NoneStr
    /\ page_numbering_style = NoneStr
    /\ first_page = 1
    /\ temp_dir = "none"
    /\ temp_files = <<>>
    /\ input_index = 0
    /\ input_file_counter = 0
    /\ image = NoImage
    /\ image_files = <<>>
    /\ open_log = <<>>
    /\ pdf_data = NoFiles
    /\ page_label = NoPageLabel
    /\ open_action = NoOpenAction
    /\ written_file = NoneStr
    /\ stdout = {}
    /\ stderr = {}

NoParseCall ==
    /\ page_format = <<>>
    /\ parse_pc = "idle"
    /\ parse_out = NoParse

NoProcessImageCall ==
    /\ pi_quality = PyInt(DefaultQuality)
    /\ pi_pc = "idle"
    /\ pi_encoded = NoneInt

\* A run of the program, on each command line of the option values above
\* with 1 to MaxInputs input files.  recompress_all_jpegs is the switch of
\* line 14, which the user sets in the source: both settings are run.
Init ==
    /\ args \in [quality : QualityArgs,
                 magnification : MagnificationArgs,
                 page_mode : PageModeArgs,
                 page_numbering : PageNumberingArgs,
                 first_page_number : FirstPageArgs,
                 input_files : {InputFiles(n) : n \in 1..MaxInputs},
                 output_file : OutputFileArgs]
    /\ recompress_all_jpegs \in BOOLEAN
    /\ jpeg_compression_quality = DefaultQuality
    /\ pc = "output_file"
    /\ MainStart
    /\ NoParseCall
    /\ NoProcessImageCall

Next ==
    \/ SetOutputFilepath
    \/ CheckQuality
    \/ CheckMagnification
    \/ CheckPageMode
    \/ ParsePageNumbering
    \/ CheckFirstPage
    \/ CreateTemporaryDirectory
    \/ InputFileProcessed
    \/ InputFileNotFound
    \/ InputFileUnidentified
    \/ CombineImages
    \/ NoImageFiles
    \/ LeaveTemporaryDirectory
    \/ PostProcess
    \/ WritePdf
    \/ WritePdfDenied

Spec == Init /\ [][Next]_vars

\* Calls of parse_page_number_formatting_string with every format string of
\* at most MaxFormatLen characters.
InitParse ==
    /\ page_format \in Strings(FormatChars, MaxFormatLen)
    /\ parse_pc = "call"
    /\ parse_out = NoParse
    /\ args = DefaultArgs
    /\ recompress_all_jpegs = FALSE
    /\ jpeg_compression_quality = DefaultQuality
    /\ pc = "idle"
    /\ MainStart
    /\ NoProcessImageCall

NextParse == ParseReturns \/ ParseRaises

SpecParse == InitParse /\ [][NextParse]_vars

\* Calls of process_image with every quality argument, with the module-level
\* quality at its default or set by the main program.
InitProcessImage ==
    /\ pi_quality \in {PyInt(q) : q \in (QualityMin - 1)..(QualityMax + 1)}
                      \cup {PyStr(DefaultQuality)}
    /\ pi_pc = "call"
    /\ pi_encoded = NoneInt
    /\ jpeg_compression_quality \in {DefaultQuality, QualityMin, QualityMax}
    /\ args = DefaultArgs
    /\ recompress_all_jpegs = FALSE
    /\ pc = "idle"
    /\ MainStart
    /\ NoParseCall

NextProcessImage == ProcessImageReturns \/ ProcessImageRaises

SpecProcessImage == InitProcessImage /\ [][NextProcessImage]_vars

-----------------------------------------------------------------------------
(* Properties of parse_page_number_formatting_string (SpecParse) *)

\* The tokens of a format string, read from the left: the 0-based position
\* and the second character of every pair that an unescaped % starts.
RECURSIVE TokensFrom(_, _)
TokensFrom(fmt, i) ==
    IF i >= Len(fmt) THEN {}
    ELSE IF fmt[i + 1] = "%" /\ i + 1 < Len(fmt)
    THEN {[pos |-> i, char |-> fmt[i + 2]]} \cup TokensFrom(fmt, i + 2)
    ELSE TokensFrom(fmt, i + 1)

Tokens(fmt) == TokensFrom(fmt, 0)
StyleTokens(fmt) == {t \in Tokens(fmt) : t.char \in StyleChars}

\* The format string with every escaped pair %% replaced by one %.
RECURSIVE Unescape(_)
Unescape(fmt) ==
    IF fmt = <<>> THEN <<>>
    ELSE IF Len(fmt) >= 2 /\ fmt[1] = "%" /\ fmt[2] = "%"
    THEN <<"%">> \o Unescape(SubSeq(fmt, 3, Len(fmt)))
    ELSE <<fmt[1]>> \o Unescape(Tail(fmt))

\* C1: for a format string without a style token, the call returns the
\* format string with each %% replaced by a single % as the prefix, and no
\* style.
C1_EscapedPercentIsOnePercent ==
    (parse_pc # "call" /\ StyleTokens(page_format) = {}
        /\ \A t \in Tokens(page_format) : t.char = "%")
    => /\ parse_pc = "returned"
       /\ parse_out.prefix = SomeStr(Unescape(page_format))
       /\ parse_out.style.none

\* C2: a call fails whenever a style token of the format string is not its
\* last two characters; it never returns a prefix and a style for it.
C2_StyleBeforeTheEndFails ==
    (parse_pc # "call"
        /\ \E t \in StyleTokens(page_format) : t.pos # Len(page_format) - 2)
    => parse_pc = "raised"

-----------------------------------------------------------------------------
(* Properties of process_image (SpecProcessImage) *)

\* C5: a call with a valid quality argument encodes the recompressed file at
\* that quality, whatever the module-level quality is.
C5_EncodedAtQualityArgument ==
    (pi_pc # "call" /\ QualityIsValid(pi_quality))
    => /\ pi_pc = "returned"
       /\ pi_encoded = SomeInt(pi_quality.val)

-----------------------------------------------------------------------------
(* Properties of the main program (Spec) *)

Last(seq) == seq[Len(seq)]

\* The inputs Image.open opened, in the order of the command line.
Opened == SelectSeq([k \in 1..Len(open_log) |-> k],
                    LAMBDA k : open_log[k] = "ok")

LoopIsOver ==
    \/ pc \in {"with_end", "post_process", "save", "done"}
    \/ pc = "exit" /\ temp_dir = "removed"

\* C3: image_files holds one entry for each input that Image.open opened, in
\* the order of the command line, an input that cannot be opened does not
\* end the loop, and the list is handed to img2pdf.convert unless it is
\* empty, when neither img2pdf.convert nor pdf.save is called.
C3_OneEntryPerOpenedInput ==
    /\ Len(image_files) = Len(Opened)
    /\ \A k \in 1..Len(image_files) :
           image_files[k] \in {InputPath(args.input_files[Opened[k]]),
                               TempPath(k)}
    /\ LoopIsOver =>
           /\ Len(open_log) = Len(args.input_files)
           /\ IF Opened = <<>>
              THEN pc = "exit" /\ pdf_data.none /\ written_file.none
              ELSE pdf_data = [none |-> FALSE, val |-> image_files]

\* A run where the first input cannot be opened, the second is processed,
\* and the document is assembled from it.
C3_Witness ==
    /\ pc = "done"
    /\ Len(open_log) = 2
    /\ open_log[1] = "FileNotFoundError"
    /\ open_log[2] = "ok"
    /\ Len(pdf_data.val) = 1

\* C4: the file chosen for an opened image is the original exactly when the
\* image is a JPEG, recompress_all_jpegs is off and the original is not
\* larger than the recompressed file; otherwise it is the recompressed file
\* in the temporary directory.
C4_OriginalIffJpegNotForcedNotLarger ==
    image.format # "none" =>
        IF /\ image.format = "JPEG"
           /\ ~recompress_all_jpegs
           /\ image.original_size <= image.output_size
        THEN Last(image_files) = InputPath(image.path)
        ELSE Last(image_files) = TempPath(Len(image_files))

\* A JPEG as large as its recompressed file, kept.
C4_Witness ==
    /\ image.format = "JPEG"
    /\ image.original_size = image.output_size
    /\ Last(image_files) = InputPath(image.path)

\* What the spec calls a malformed page-numbering string: more than one
\* style token, an unknown character after an unescaped %, or a style token
\* that is not the last two characters.
Malformed(fmt) ==
    \/ Cardinality(StyleTokens(fmt)) > 1
    \/ \E t \in Tokens(fmt) : t.char \notin StyleChars \cup {"%"}
    \/ \E t \in StyleTokens(fmt) : t.pos # Len(fmt) - 2

NotAnIntegerIn(option, low, high) ==
    /\ ~option.none
    /\ \/ int(option.val).raised
       \/ int(option.val).val < low
       \/ int(option.val).val > high

ConfigurationError ==
    \/ NotAnIntegerIn(args.quality, QualityMin, QualityMax)
    \/ Len(args.magnification) > 1
    \/ Len(args.page_mode) > 1
    \/ ~args.page_numbering.none /\ Malformed(args.page_numbering.val)
    \/ /\ ~args.first_page_number.none
       /\ \/ int(args.first_page_number.val).raised
          \/ int(args.first_page_number.val).val < 1

\* C6: in a run with a configuration error no image is opened, no temporary
\* directory is created, img2pdf.convert is not called and no file is
\* written.
C6_ConfigurationErrorStopsBeforeImages ==
    ConfigurationError =>
        /\ open_log = <<>>
        /\ temp_dir = "none"
        /\ pdf_data.none
        /\ written_file.none

\* The file name of a path has an extension (os.path.splitext): a dot in
\* the last component, after a character that is not a dot.
FileNameHasExtension(path) ==
    \E k \in 1..Len(path) :
        /\ path[k] = "."
        /\ \A j \in k..Len(path) : path[j] # "/"
        /\ k > 1 /\ path[k - 1] \notin {"/", "."}

\* C7: the file written is the output path with .pdf appended when its file
\* name has no extension, and the output path itself otherwise.
C7_PdfExtensionIffFileNameHasNone ==
    ~written_file.none =>
        written_file.val =
            IF FileNameHasExtension(args.output_file)
            THEN args.output_file
            ELSE args.output_file \o DotPdf

Diagnostics ==
    {"-q/--quality argument must be an integer value between 1 and 100",
     "only one magnification setting can be specified",
     "only one page mode setting can be specified",
     MsgOneStyle, MsgInvalidStyle, MsgNoSuffix,
     "--first-page-number argument must be a positive integer value",
     "Unable to open",
     "is either not an image file or the file is corrupted"}

\* C8: no diagnostic of a configuration error or of a per-file error is
\* written to standard output.
C8_DiagnosticsNeverOnStdout == stdout \cap Diagnostics = {}

\* C9: the temporary directory is there when img2pdf.convert has read the
\* files, and is gone on every path out of the with block and when the run
\* has ended.
C9_TemporaryDirectoryRemoved ==
    /\ pc = "with_end" => temp_dir = "exists"
    /\ pc \in {"post_process", "save", "done", "exit"} => temp_dir # "exists"

\* A finished run whose document holds a recompressed file.
C9_Witness ==
    /\ pc = "done"
    /\ temp_dir = "removed"
    /\ \E k \in 1..Len(pdf_data.val) : pdf_data.val[k].dir = "temp"

\* C10: the page label holds /P exactly when the parsed prefix is not
\* empty, /S exactly when a style was parsed, /St exactly when the first
\* page is greater than 1, each with the parsed value.
C10_PageLabelFields ==
    pc \in {"save", "done"} =>
        /\ page_label.P.none <=>
               (page_numbering_prefix.none \/ page_numbering_prefix.val = <<>>)
        /\ ~page_label.P.none => page_label.P = page_numbering_prefix
        /\ page_label.S.none <=> page_numbering_style.none
        /\ ~page_label.S.none => page_label.S = page_numbering_style
        /\ page_label.St.none <=> ~(first_page > 1)
        /\ ~page_label.St.none => page_label.St.val = first_page

\* A document numbered from 1 in the style /D with a prefix: /P and /S are
\* set, /St is not.
C10_Witness ==
    /\ pc = "done"
    /\ first_page = 1
    /\ page_label.P = SomeStr(<<"A", "-">>)
    /\ page_label.S = SomeStr(<<"/", "D">>)
    /\ page_label.St.none

====
